---- MODULE Spec2Model ----
(***************************************************************************)
(* A model of two parts of the pudzu toolkit:                              *)
(*   - dataviz/neighbours.py: country_borders, which recolours a country   *)
(*     of a categorical map raster with the colours of its nearest         *)
(*     neighbours (Euclidean distance transform);                          *)
(*   - utils.py: the decorators ignoring_extra_args, ignoring_exceptions,  *)
(*     with_retries and cached_property.                                   *)
(* Each part has its own specification (SpecBorders, SpecArgs, SpecExc,    *)
(* SpecRetries, SpecCache) over its own variables; the variables of the    *)
(* other parts stay at their idle values.                                  *)
(***************************************************************************)
EXTENDS Integers, Sequences, FiniteSets, TLC

VARIABLES
    \* dataviz/neighbours.py
    maparray,     \* the recoloured map as an RGBA pixel array (line 24)
    bpc,          \* "loaded" | "done" | "redone" | "error": country_borders' progress
    country,      \* the argument of the last country_borders call
    outarray,     \* the array country_borders returned
    \* utils.py: ignoring_extra_args and ignoring_exceptions
    fn,           \* the wrapped function: its signature (and what it does)
    args,         \* the positional arguments given to the wrapper
    kwargs,       \* the keyword arguments given to the wrapper
    called,       \* the arguments the wrapper called the function with
    result,       \* what the wrapper did: the value returned or the exception
    apc,          \* "ready" | "returned" | "raised"
    handler,      \* ignoring_exceptions: the handler argument
    exceptions,   \* ignoring_exceptions: the exception classes to catch
    hcalled,      \* the arguments the handler was called with
    \* utils.py: with_retries
    max_retries,  \* the max_retries argument (None: no limit)
    max_duration, \* the max_duration argument (None: no limit)
    fails,        \* fn raises on its first `fails` calls (None: on every call)
    excclass,     \* the class of the exceptions fn raises
    rpc,          \* where the wrapper is: "start", "loop", "call", "except",
                  \* "sleep", "returned", "raised"
    idx,          \* the loop variable i of line 140
    end_time,     \* the local end_time of lines 137 and 139
    now,          \* the clock: datetime.datetime.now()
    log,          \* what the wrapper did so far: "call" and "sleep" events
    rresult,      \* what the wrapper returned or raised
    \* utils.py: cached_property (the clock is now, as for with_retries)
    expires_after, \* the expires_after argument (None: the value never expires)
    obj,          \* the attributes of the owning object: attribute -> dict
    ncalls,       \* how many times the property's function was called
    lastop,       \* the last operation on the property and what it did
    computed      \* the value computed last and when, for the claims

bordersVars == <<maparray, bpc, country, outarray>>
argsVars == <<fn, args, kwargs, called, result, apc>>
excVars == <<handler, exceptions, hcalled>>
retryVars == <<max_retries, max_duration, fails, excclass, rpc, idx, end_time, now, log,
               rresult>>

cacheVars == <<expires_after, obj, ncalls, lastop, computed>>

vars == <<bordersVars, argsVars, excVars, retryVars, cacheVars>>

\* Python's None, for the values that are numbers otherwise.
None == 0 - 1

Min(a, b) == IF a <= b THEN a ELSE b

\* No image yet, no call yet, no result yet.
NoImage == <<>>
NoCall == [pos |-> <<>>, kw |-> <<>>, made |-> FALSE]
NoValue == [of |-> "", call |-> NoCall]
NoResult == [raised |-> "", why |-> {}, value |-> NoValue]
\* A function: its signature, the exception its body raises ("": it returns),
\* and whether the value it returns is a constant or tells its arguments.
Function(sg, exc, nm, cst) == [sig |-> sg, raises |-> exc, name |-> nm, const |-> cst]
NoFunction == Function(<<>>, "", "", TRUE)
NoHandler == [callable |-> FALSE, value |-> "", fn |-> NoFunction]

\* The values of a part's variables in the specifications of the other parts.
IdleBorders ==
    /\ maparray = NoImage
    /\ bpc = "idle"
    /\ country = ""
    /\ outarray = NoImage

IdleArgs ==
    /\ fn = NoFunction
    /\ args = <<>>
    /\ kwargs = <<>>
    /\ called = NoCall
    /\ result = NoResult
    /\ apc = "idle"

IdleExc ==
    /\ handler = NoHandler
    /\ exceptions = {}
    /\ hcalled = NoCall

IdleRetry ==
    /\ max_retries = None
    /\ max_duration = None
    /\ fails = 0
    /\ excclass = ""
    /\ rpc = "idle"
    /\ idx = 0
    /\ end_time = 0
    /\ now = 0
    /\ log = <<>>
    /\ rresult = NoResult

NoOp == [op |-> "", called |-> FALSE, raised |-> FALSE, value |-> None,
         cached |-> FALSE, age |-> 0]
NotComputed == [cached |-> FALSE, value |-> None, at |-> 0]

\* The two dicts cached_property keeps on the owning object, for the one
\* property of the model (self.name): whether the object has the dicts
\* _property_cache_expiry_times and _property_cache_values, and the entries of
\* the property in them (None: the dict has no such key).
NoDicts == [dicts |-> FALSE, expiry_time |-> None, value |-> None]

IdleCache ==
    /\ expires_after = None
    /\ obj = NoDicts
    /\ ncalls = 0
    /\ lastop = NoOp
    /\ computed = NotComputed

(***************************************************************************)
(*                       dataviz/neighbours.py                             *)
(***************************************************************************)

\* The raster is two rows of Width pixels.
Width == 2
Rows == {1, 2}
\* At most MaxPainted pixels of a map differ from the colour that fills the
\* rest of the frame.
MaxPainted == 3

Pixels == Rows \X (1..Width)

BACKGROUND == "Sea"
\* MERGE: the dependencies counted under their parent state.
MERGE == [n \in {"Gibraltar"} |-> "UK"]
\* A named colour is a one-element tuple; an RGB(A) colour a 3- or 4-tuple.
IGNORECOLOR == <<"grey">>

\* The legend of the map (the records of the map's name csv): name and the
\* colour the region has in the blank map.
mapnames ==
    << [name |-> "Sea",       color |-> <<0, 0, 9>>],
       [name |-> "UK",        color |-> <<7, 0, 0>>],
       [name |-> "Gibraltar", color |-> <<7, 1, 0>>],
       [name |-> "France",    color |-> <<7, 2, 0>>],
       [name |-> "Spain",     color |-> <<7, 3, 0>>] >>

LegendNames == {mapnames[i].name : i \in 1..Len(mapnames)}

\* A name that no record of the legend has.
UnknownName == "Atlantis"

IsCanonical(d) == d.name \notin DOMAIN MERGE /\ d.name # BACKGROUND

\* The mutant of names: the merged dependencies are not filtered out.
names_keep_merged ==
    LET keep(d) == d.name # BACKGROUND
        sel == SelectSeq(mapnames, keep)
    IN [i \in 1..Len(sel) |-> sel[i].name]

names ==
    LET sel == SelectSeq(mapnames, IsCanonical)
    IN [i \in 1..Len(sel) |-> sel[i].name]

\* first_or_none of the colours of the BACKGROUND records.
bgcolor ==
    LET sel == SelectSeq(mapnames, LAMBDA d : d.name = BACKGROUND)
    IN IF Len(sel) = 0 THEN <<>> ELSE sel[1].color

\* sns.color_palette("hls", n) scaled to 0..255: n distinct RGB colours.
palette == [i \in 1..Len(names) |-> <<i, Len(names) - i, 5>>]

\* list.index: the first position of x in s, 0 when x is not in s (ValueError).
index(s, x) ==
    IF \E i \in 1..Len(s) : s[i] = x
    THEN CHOOSE i \in 1..Len(s) : s[i] = x /\ \A j \in 1..(i - 1) : s[j] # x
    ELSE 0

\* colorfn: the colour map_chart paints region n with; <<>> (None) leaves it.
colorfn(n) ==
    IF n = BACKGROUND THEN <<>>
    ELSE IF n \in DOMAIN MERGE THEN palette[index(names, MERGE[n])]
    ELSE palette[index(names, n)]

\* ImageColor.getrgba: a colour name or an RGB tuple as an opaque RGBA tuple.
getrgba(color) ==
    IF Len(color) = 1 THEN <<1, 1, 1, 255>>
    ELSE IF Len(color) = 3 THEN color \o <<255>>
    ELSE color

Zero == <<0, 0, 0, 0>>

\* The colours a pixel of the recoloured map can have: the background is left
\* as it is, every region of the legend is painted by colorfn, and the
\* regions outside the legend are grey.
RegionColors == {getrgba(colorfn(n)) : n \in LegendNames \ {BACKGROUND}}
PaintedColors == RegionColors \cup {getrgba(IGNORECOLOR)}

\* The mutant of mask_by_color: only the first channel is compared.
mask_by_first_channel(nparray, color) ==
    LET c == getrgba(color)
    IN [p \in DOMAIN nparray |-> nparray[p][1] = c[1]]

\* mask_by_color: the pixels whose every channel equals the colour's.
mask_by_color(nparray, color) ==
    LET c == getrgba(color)
        nchannels == 4
    IN [p \in DOMAIN nparray |->
           \A i \in 1..Min(Len(c), nchannels) : nparray[p][i] = c[i]]

Dist2(p, q) == (p[1] - q[1]) * (p[1] - q[1]) + (p[2] - q[2]) * (p[2] - q[2])

\* ndimage.distance_transform_edt(mask, return_indices=True) at pixel p: the
\* index of a nearest pixel where the mask is false; p itself where the mask
\* is false at p. Equidistant pixels: any of them. A mask that is true
\* everywhere has no nearest false pixel and the library leaves the index
\* unspecified: any pixel.
distance_transform_edt(mask, p) ==
    LET zeros == {q \in DOMAIN mask : ~mask[q]}
    IN IF ~mask[p] THEN {p}
       ELSE IF zeros = {} THEN DOMAIN mask
       ELSE {q \in zeros : \A r \in zeros : Dist2(p, q) <= Dist2(p, r)}

\* maparray[indx,indy] over the pixels S: the arrays of colours that the
\* index arrays the transform can return select, as functions pixel -> colour.
RECURSIVE Selected(_, _, _)
Selected(nparray, mask, S) ==
    IF S = {} THEN {<<>>}
    ELSE LET p == CHOOSE p \in S : TRUE
             here == {nparray[q] : q \in distance_transform_edt(mask, p)}
         IN {(p :> v) @@ f : v \in here, f \in Selected(nparray, mask, S \ {p})}

\* The mutant of edtmask: the ignore colour is left out of the mask.
edtmask_without_ignore(nparray, cmask) ==
    LET bg == mask_by_color(nparray, bgcolor)
    IN [p \in DOMAIN nparray |-> cmask[p] \/ bg[p]]

\* Line 37: the country's pixels, the background and the ignored pixels.
edtmask(nparray, cmask) ==
    LET bg == mask_by_color(nparray, bgcolor)
        ig == mask_by_color(nparray, IGNORECOLOR)
    IN [p \in DOMAIN nparray |-> cmask[p] \/ bg[p] \/ ig[p]]

\* The mutant of masked: the values are not multiplied by the mask.
unmasked(edtvals, cmask) == edtvals

\* Line 40: every channel of edtvals multiplied by cmask.
masked(edtvals, cmask) ==
    [p \in DOMAIN edtvals |->
        [i \in 1..Len(edtvals[p]) |-> edtvals[p][i] * (IF cmask[p] THEN 1 ELSE 0)]]

\* country_borders on the array nparray: the arrays it can return. Only the
\* pixels of cmask are looked up: line 40 multiplies every other pixel by 0,
\* whichever pixel the transform names for it.
country_borders(nparray, c) ==
    LET cmask == mask_by_color(nparray, palette[index(names, c)])
        emask == edtmask(nparray, cmask)
        footprint == {p \in DOMAIN nparray : cmask[p]}
    IN { masked([p \in DOMAIN nparray |->
                    IF p \in footprint THEN sel[p] ELSE nparray[p]],
                cmask) : sel \in Selected(nparray, emask, footprint) }

\* The sets of at most MaxPainted pixels: the pixels of a map that differ
\* from the colour that fills the rest of the frame.
PaintedSets == {T \in SUBSET Pixels : Cardinality(T) <= MaxPainted}

\* The colours of the recoloured map: the background and the painted colours.
MapColors == {getrgba(bgcolor)} \cup PaintedColors

\* The map: a frame filled with one colour (the sea, or one region, or grey)
\* with at most MaxPainted pixels of other colours.
BordersInit ==
    /\ \E base \in MapColors : \E S \in PaintedSets : \E f \in [S -> MapColors] :
          maparray = [p \in Pixels |-> IF p \in S THEN f[p] ELSE base]
    /\ bpc = "loaded"
    /\ country = ""
    /\ outarray = NoImage
    /\ IdleArgs
    /\ IdleExc
    /\ IdleRetry
    /\ IdleCache

\* country_borders(c) with a name of the canonical list: line 36 finds its
\* palette colour and lines 37-41 return the image.
CountryBorders(c) ==
    /\ bpc = "loaded"
    /\ index(names, c) # 0
    /\ outarray' \in country_borders(maparray, c)
    /\ bpc' = "done"
    /\ country' = c
    /\ UNCHANGED <<maparray, argsVars, excVars, retryVars, cacheVars>>

\* country_borders(c) with any other name: names.index(c) raises ValueError.
CountryBordersFails(c) ==
    /\ bpc = "loaded"
    /\ index(names, c) = 0
    /\ bpc' = "error"
    /\ country' = c
    /\ UNCHANGED <<maparray, outarray, argsVars, excVars, retryVars, cacheVars>>

\* country_borders(c) again, on the image the first call returned: the
\* returned image, as an array, takes the place of maparray.
CountryBordersAgain ==
    /\ bpc = "done"
    /\ maparray' = outarray
    /\ outarray' \in country_borders(outarray, country)
    /\ bpc' = "redone"
    /\ UNCHANGED <<country, argsVars, excVars, retryVars, cacheVars>>

BordersNext ==
    \/ \E c \in LegendNames \cup {UnknownName} :
          \/ CountryBorders(c)
          \/ CountryBordersFails(c)
    \/ CountryBordersAgain

SpecBorders == BordersInit /\ [][BordersNext]_vars

(***************************************************************************)
(*            utils.py: number_of_args .. ignoring_extra_args              *)
(***************************************************************************)

\* The wrapper is called with at most MaxArgs positional arguments.
MaxArgs == 3

\* inspect.Parameter kinds.
POSITIONAL_ONLY == "POSITIONAL_ONLY"
POSITIONAL_OR_KEYWORD == "POSITIONAL_OR_KEYWORD"
VAR_POSITIONAL == "VAR_POSITIONAL"
KEYWORD_ONLY == "KEYWORD_ONLY"
VAR_KEYWORD == "VAR_KEYWORD"

Param(n, k) == [name |-> n, kind |-> k]

\* signature(fn).parameters.values(): the signatures def f(p, /, a, b, *args,
\* k, **kw) and every signature with some of its parameters left out (a kept
\* with b). No parameter has a default.
Signatures ==
    { po \o pk \o vp \o ko \o vk :
        po \in {<<>>, <<Param("p", POSITIONAL_ONLY)>>},
        pk \in {<<>>, <<Param("a", POSITIONAL_OR_KEYWORD)>>,
                <<Param("a", POSITIONAL_OR_KEYWORD), Param("b", POSITIONAL_OR_KEYWORD)>>},
        vp \in {<<>>, <<Param("args", VAR_POSITIONAL)>>},
        ko \in {<<>>, <<Param("k", KEYWORD_ONLY)>>},
        vk \in {<<>>, <<Param("kw", VAR_KEYWORD)>>} }

ArgValues == {"x", "y"}
KwNames == {"a", "k", "z"}

\* *args: the tuples of at most MaxArgs values.
ArgTuples == UNION {[1..m -> ArgValues] : m \in 0..MaxArgs}
\* **kwargs: the dicts over the names of S.
KwDicts(S) == UNION {[T -> ArgValues] : T \in SUBSET S}

Kinds(sig) == {sig[i].kind : i \in 1..Len(sig)}
NamesOfKind(sig, ks) ==
    LET sel == SelectSeq(sig, LAMBDA q : q.kind \in ks)
    IN [i \in 1..Len(sel) |-> sel[i].name]
Range(s) == {s[i] : i \in 1..Len(s)}

\* The mutant of number_of_args: the keyword-only parameters are counted too.
number_of_args_counting_kwonly(sig) ==
    IF VAR_POSITIONAL \in Kinds(sig) THEN None
    ELSE Len(NamesOfKind(sig, {POSITIONAL_ONLY, POSITIONAL_OR_KEYWORD, KEYWORD_ONLY}))

\* number_of_args (lines 77-80): None with a *args parameter, else the number
\* of positional parameters.
number_of_args(sig) ==
    IF VAR_POSITIONAL \in Kinds(sig) THEN None
    ELSE Len(NamesOfKind(sig, {POSITIONAL_ONLY, POSITIONAL_OR_KEYWORD}))

\* The mutant of all_keyword_args: a *args parameter too makes it None.
all_keyword_args_any_variadic(sig) ==
    IF VAR_KEYWORD \in Kinds(sig) \/ VAR_POSITIONAL \in Kinds(sig)
    THEN [isNone |-> TRUE, names |-> <<>>]
    ELSE [isNone |-> FALSE,
          names |-> NamesOfKind(sig, {KEYWORD_ONLY, POSITIONAL_OR_KEYWORD})]

\* all_keyword_args (lines 101-104): None with a **kwargs parameter, else the
\* names of the parameters that can be given by keyword.
all_keyword_args(sig) ==
    IF VAR_KEYWORD \in Kinds(sig)
    THEN [isNone |-> TRUE, names |-> <<>>]
    ELSE [isNone |-> FALSE,
          names |-> NamesOfKind(sig, {KEYWORD_ONLY, POSITIONAL_OR_KEYWORD})]

\* args[0:n]: the whole tuple when n is None.
Slice(a, n) == IF n = None THEN a ELSE SubSeq(a, 1, Min(n, Len(a)))

\* keyfilter(pred, d): the items of d whose key satisfies pred.
keyfilter(pred(_), d) == [k \in {j \in DOMAIN d : pred(j)} |-> d[k]]

\* What line 118 passes to fn: args[0:n] and the filtered kwargs.
Passed(sig, a, kw) ==
    LET n == number_of_args(sig)
        kwa == all_keyword_args(sig)
    IN [pos |-> Slice(a, n),
        kw  |-> keyfilter(LAMBDA k : kwa.isNone \/ k \in Range(kwa.names), kw)]

\* Python's binding of a call f(*pos, **kw) to the signature sig: the reasons
\* for which it raises TypeError (none: the call goes through).
BindErrors(sig, pos, kw) ==
    LET positional == NamesOfKind(sig, {POSITIONAL_ONLY, POSITIONAL_OR_KEYWORD})
        bykeyword == Range(NamesOfKind(sig, {POSITIONAL_OR_KEYWORD, KEYWORD_ONLY}))
        filled == {positional[i] : i \in 1..Min(Len(pos), Len(positional))}
        when(cond, why) == IF cond THEN {why} ELSE {}
    IN  when(Len(pos) > Len(positional) /\ VAR_POSITIONAL \notin Kinds(sig),
             "too many positional arguments")
        \cup when((Range(positional) \ filled) \ (DOMAIN kw \cap bykeyword) # {},
                  "missing positional argument")
        \cup when(Range(NamesOfKind(sig, {KEYWORD_ONLY})) \ DOMAIN kw # {},
                  "missing keyword-only argument")
        \cup when(DOMAIN kw \cap bykeyword \cap filled # {},
                  "multiple values for argument")
        \cup when(VAR_KEYWORD \notin Kinds(sig) /\ DOMAIN kw \ bykeyword # {},
                  "unexpected keyword argument")

ArityErrors == {"too many positional arguments", "missing positional argument"}

Call(pos, kw) == [pos |-> pos, kw |-> kw, made |-> TRUE]
Raised(exc) == [raised |-> exc, why |-> {}, value |-> NoValue]
TypeError(why) == [raised |-> "TypeError", why |-> why, value |-> NoValue]
\* What f called with c returns: a constant of f, or a value that tells c.
Returned(f, c) ==
    [raised |-> "", why |-> {},
     value |-> [of |-> f.name, call |-> IF f.const THEN NoCall ELSE c]]

\* The call f(*pos, **kw): TypeError when the arguments do not bind, else
\* what the body of f does.
Apply(f, pos, kw) ==
    LET errs == BindErrors(f.sig, pos, kw)
    IN IF errs # {} THEN TypeError(errs)
       ELSE IF f.raises # "" THEN Raised(f.raises)
       ELSE Returned(f, Call(pos, kw))

\* The wrapper of ignoring_extra_args(f) called with (a, kw): what f is called
\* with, and what comes back.
ignoring_extra_args(f, a, kw) ==
    LET p == Passed(f.sig, a, kw)
    IN [called |-> Call(p.pos, p.kw), result |-> Apply(f, p.pos, p.kw)]

ArgsInit ==
    /\ fn \in {Function(sg, "", "f", FALSE) : sg \in Signatures}
    /\ args \in ArgTuples
    /\ kwargs \in KwDicts(KwNames)
    /\ called = NoCall
    /\ result = NoResult
    /\ apc = "ready"
    /\ IdleBorders
    /\ IdleExc
    /\ IdleRetry
    /\ IdleCache

\* ignoring_extra_args(f)(*args, **kwargs).
ExtraArgsWrapper ==
    /\ apc = "ready"
    /\ LET r == ignoring_extra_args(fn, args, kwargs)
       IN /\ called' = r.called
          /\ result' = r.result
          /\ apc' = IF r.result.raised = "" THEN "returned" ELSE "raised"
    /\ UNCHANGED <<fn, args, kwargs, bordersVars, excVars, retryVars, cacheVars>>

ArgsNext == ExtraArgsWrapper

SpecArgs == ArgsInit /\ [][ArgsNext]_vars

(***************************************************************************)
(*                     utils.py: ignoring_exceptions                       *)
(***************************************************************************)

\* The classes of the exceptions: each with its base classes.
Bases ==
    [c \in {"KeyError", "ValueError", "KeyboardInterrupt"} |->
        CASE c = "KeyError" -> {"KeyError", "LookupError", "Exception", "BaseException"}
          [] c = "ValueError" -> {"ValueError", "Exception", "BaseException"}
          [] c = "KeyboardInterrupt" -> {"KeyboardInterrupt", "BaseException"}]

\* The exceptions arguments: a class or a tuple of classes (Exception is the
\* default).
ExceptionsArgs == {{"Exception"}, {"LookupError"}, {"ValueError"}, {"KeyError", "ValueError"}}

\* The mutant of Caught: every exception is caught (a bare except).
CaughtAlways(exc, classes) == TRUE

\* except exceptions: an exception of one of the classes or of a subclass.
Caught(exc, classes) == Bases[exc] \cap classes # {}

\* Line 123: the handler itself when it is callable, else lambda: handler.
handler_fn(h) == IF h.callable THEN h.fn ELSE Function(<<>>, "", h.value, TRUE)

\* The wrapped function takes whatever it is given (def fn(*args, **kwargs)).
AnySignature == <<Param("args", VAR_POSITIONAL), Param("kw", VAR_KEYWORD)>>

ExcInit ==
    /\ fn \in {Function(AnySignature, exc, "fn", FALSE) : exc \in {""} \cup DOMAIN Bases}
    /\ handler \in {[callable |-> FALSE, value |-> "fallback", fn |-> NoFunction]}
                   \cup {[callable |-> TRUE, value |-> "",
                          fn |-> Function(sg, "", "handler", FALSE)] : sg \in Signatures}
    /\ exceptions \in ExceptionsArgs
    /\ args \in ArgTuples
    /\ kwargs \in KwDicts({"a", "z"})
    /\ called = NoCall
    /\ hcalled = NoCall
    /\ result = NoResult
    /\ apc = "ready"
    /\ IdleBorders
    /\ IdleRetry
    /\ IdleCache

\* ignoring_exceptions(fn, handler, exceptions)(*args, **kwargs), lines 125-129.
ExceptionsWrapper ==
    /\ apc = "ready"
    /\ LET r == Apply(fn, args, kwargs)
           h == ignoring_extra_args(handler_fn(handler), args, kwargs)
           caught == r.raised # "" /\ Caught(r.raised, exceptions)
           res == IF caught THEN h.result ELSE r
       IN /\ called' = Call(args, kwargs)
          /\ hcalled' = IF caught THEN h.called ELSE NoCall
          /\ result' = res
          /\ apc' = IF res.raised = "" THEN "returned" ELSE "raised"
    /\ UNCHANGED <<fn, args, kwargs, handler, exceptions, bordersVars, retryVars,
                   cacheVars>>

ExcNext == ExceptionsWrapper

SpecExc == ExcInit /\ [][ExcNext]_vars

(***************************************************************************)
(*                        utils.py: with_retries                           *)
(***************************************************************************)

\* max_retries is at most MaxRetries, max_duration at most MaxDuration, the
\* function fails at most MaxFails times before it succeeds (or it always
\* fails), a call of the function takes at most MaxCallTime, and the clock
\* is followed up to MaxClock.
MaxRetries == 3
MaxDuration == 2
MaxFails == 3
MaxCallTime == 1
MaxClock == 6
\* expires_after is at most MaxExpiry, and the property's function is called
\* at most MaxCalls times.
MaxExpiry == 2
MaxCalls == 3
\* interval: the clock counts in sleep intervals.
Interval == 1
\* datetime.datetime.max: later than any time of the clock.
DatetimeMax == MaxClock + MaxDuration + MaxExpiry + Interval + 1

OrNone(S) == S \cup {None}

\* The number of calls of fn so far.
Calls == Len(SelectSeq(log, LAMBDA e : e = "call"))

\* Whether the n-th call of fn raises.
FnRaises(n) == fails = None \/ n <= fails

\* The exception the n-th call of fn raises.
Exception(n) == [raised |-> excclass, why |-> {n}, value |-> NoValue]
Success == [raised |-> "", why |-> {}, value |-> [of |-> "fn", call |-> NoCall]]
ReturnsNone == [raised |-> "", why |-> {}, value |-> NoValue]

\* The mutant of LastRetry: the wrapper gives up one iteration early.
LastRetryEarly(k, limit) == limit # None /\ k + 2 >= limit

\* Line 144: i + 1 == max_retries.
LastRetry(k, limit) == k + 1 = limit

\* Line 145: datetime.datetime.now() > datetime.datetime.max.
PastEnd(t) == t > DatetimeMax

RetryInit ==
    /\ max_retries \in OrNone(0..MaxRetries)
    /\ max_duration \in OrNone(0..MaxDuration)
    /\ fails \in OrNone(0..MaxFails)
    /\ excclass \in DOMAIN Bases
    /\ exceptions \in {{"Exception"}}
    /\ rpc = "start"
    /\ idx = 0
    /\ end_time = 0
    /\ now = 0
    /\ log = <<>>
    /\ rresult = NoResult
    /\ IdleBorders
    /\ IdleArgs
    /\ handler = NoHandler
    /\ hcalled = NoCall
    /\ IdleCache

RetryUnchanged == UNCHANGED <<bordersVars, argsVars, excVars, cacheVars, max_retries,
                              max_duration, fails, excclass>>

\* Lines 136-139: the wrapper is entered and sets end_time.
RetryEnter ==
    /\ rpc = "start"
    /\ end_time' = IF max_duration = None THEN DatetimeMax ELSE now + max_duration
    /\ rpc' = "loop"
    /\ UNCHANGED <<idx, now, log, rresult>>
    /\ RetryUnchanged

\* Line 140: the next i of itertools.count() or of range(max_retries); when
\* the range is exhausted the wrapper falls off its end and returns None.
RetryLoop ==
    /\ rpc = "loop"
    /\ IF max_retries # None /\ idx >= max_retries
       THEN rpc' = "returned" /\ rresult' = ReturnsNone
       ELSE rpc' = "call" /\ UNCHANGED rresult
    /\ UNCHANGED <<idx, end_time, now, log>>
    /\ RetryUnchanged

\* Lines 141-143: fn is called; it returns, or it raises an exception that
\* the except clause catches, or one that it does not catch.
RetryCall ==
    /\ rpc = "call"
    /\ \E d \in 0..MaxCallTime :
          /\ now + d <= MaxClock
          /\ now' = now + d
    /\ log' = Append(log, "call")
    /\ IF ~FnRaises(Calls + 1)
       THEN rpc' = "returned" /\ rresult' = Success
       ELSE /\ rresult' = Exception(Calls + 1)
            /\ rpc' = IF Caught(excclass, exceptions) THEN "except" ELSE "raised"
    /\ UNCHANGED <<idx, end_time>>
    /\ RetryUnchanged

\* Lines 144-146: re-raise on the last iteration or past the end, else sleep.
RetryExcept ==
    /\ rpc = "except"
    /\ rpc' = IF LastRetry(idx, max_retries) THEN "raised"
              ELSE IF PastEnd(now) THEN "raised"
              ELSE "sleep"
    /\ UNCHANGED <<idx, end_time, now, log, rresult>>
    /\ RetryUnchanged

\* Line 146: sleep(interval), then the next iteration.
RetrySleep ==
    /\ rpc = "sleep"
    /\ now + Interval <= MaxClock
    /\ now' = now + Interval
    /\ log' = Append(log, "sleep")
    /\ idx' = idx + 1
    /\ rpc' = "loop"
    /\ UNCHANGED <<end_time, rresult>>
    /\ RetryUnchanged

RetryNext ==
    \/ RetryEnter
    \/ RetryLoop
    \/ RetryCall
    \/ RetryExcept
    \/ RetrySleep

SpecRetries == RetryInit /\ [][RetryNext]_vars

(***************************************************************************)
(*                       utils.py: cached_property                         *)
(***************************************************************************)

\* Lines 161-164: the two dicts are created on the object when it has none.
WithDicts(o) == [o EXCEPT !.dicts = TRUE]

\* The mutant of Stale: a value expires as soon as its expiry time is reached.
StaleAtExpiry(o, t) == o.expiry_time = None \/ t >= o.expiry_time

\* Lines 165-166: no expiry time, or the clock is past it.
Stale(o, t) == o.expiry_time = None \/ t > o.expiry_time

\* Lines 168-171: the expiry time of a value computed at t.
ExpiryTime(t) == IF expires_after = None THEN DatetimeMax ELSE t + expires_after

CacheInit ==
    /\ expires_after \in OrNone(0..MaxExpiry)
    /\ obj = NoDicts
    /\ ncalls = 0
    /\ now = 0
    /\ lastop = NoOp
    /\ computed = NotComputed
    /\ IdleBorders
    /\ IdleArgs
    /\ IdleExc
    /\ max_retries = None
    /\ max_duration = None
    /\ fails = 0
    /\ excclass = ""
    /\ rpc = "idle"
    /\ idx = 0
    /\ end_time = 0
    /\ log = <<>>
    /\ rresult = NoResult

CacheUnchanged == UNCHANGED <<bordersVars, argsVars, excVars, expires_after, max_retries,
                              max_duration, fails, excclass, rpc, idx, end_time, log,
                              rresult>>

\* What a read records: whether a value was cached when it began, and how
\* long before it that value had been computed.
Read(didcall, didraise, v) ==
    [op |-> "get", called |-> didcall, raised |-> didraise, value |-> v,
     cached |-> computed.cached, age |-> now - computed.at]

\* __get__ with a value that is not stale (lines 165 and 172): the cached
\* value is returned.
GetCached ==
    /\ ~Stale(WithDicts(obj), now)
    /\ obj' = WithDicts(obj)
    /\ lastop' = Read(FALSE, FALSE, obj'.value)
    /\ UNCHANGED <<ncalls, now, computed>>
    /\ CacheUnchanged

\* __get__ with no value or a stale one (lines 165-172): the function is
\* called, which takes d; its value, the ncalls-th, is stored with its
\* expiry time and returned.
GetComputes ==
    /\ Stale(WithDicts(obj), now)
    /\ ncalls < MaxCalls
    /\ \E d \in 0..MaxCallTime :
          /\ now + d <= MaxClock
          /\ now' = now + d
    /\ ncalls' = ncalls + 1
    /\ obj' = [WithDicts(obj) EXCEPT !.value = ncalls',
                                      !.expiry_time = ExpiryTime(now')]
    /\ lastop' = Read(TRUE, FALSE, ncalls')
    /\ computed' = [cached |-> TRUE, value |-> ncalls', at |-> now']
    /\ CacheUnchanged

\* __get__ with no value or a stale one, and the function raises: nothing is
\* stored and the exception leaves __get__ at line 167.
GetRaises ==
    /\ Stale(WithDicts(obj), now)
    /\ ncalls < MaxCalls
    /\ \E d \in 0..MaxCallTime :
          /\ now + d <= MaxClock
          /\ now' = now + d
    /\ ncalls' = ncalls + 1
    /\ obj' = WithDicts(obj)
    /\ lastop' = Read(TRUE, TRUE, None)
    /\ UNCHANGED computed
    /\ CacheUnchanged

\* __delete__ (lines 174-178): the name is deleted from the dicts the object
\* has.
Delete ==
    /\ obj' = [obj EXCEPT !.expiry_time = None, !.value = None]
    /\ lastop' = [NoOp EXCEPT !.op = "delete"]
    /\ computed' = NotComputed
    /\ UNCHANGED <<ncalls, now>>
    /\ CacheUnchanged

\* The clock advances.
Tick ==
    /\ now < MaxClock
    /\ now' = now + 1
    /\ lastop' = [NoOp EXCEPT !.op = "tick"]
    /\ UNCHANGED <<obj, ncalls, computed>>
    /\ CacheUnchanged

CacheNext ==
    \/ GetCached
    \/ GetComputes
    \/ GetRaises
    \/ Delete
    \/ Tick

SpecCache == CacheInit /\ [][CacheNext]_vars

(***************************************************************************)
(* Claims about country_borders, checked under SpecBorders.                *)
(***************************************************************************)

\* The colour of country c in the map, and the two colours that are no region.
TargetColor(c) == getrgba(palette[index(names, c)])
BgColor == getrgba(bgcolor)
IgnoreColor == getrgba(IGNORECOLOR)

\* The pixels of country c, and the pixels of the other regions.
Footprint(c) == {p \in Pixels : maparray[p] = TargetColor(c)}
Sources(c) ==
    {q \in Pixels : maparray[q] \notin {TargetColor(c), BgColor, IgnoreColor}}

\* C1: when the target has a pixel and the map has a pixel that is neither
\* target, background nor ignore coloured, every pixel of the target's
\* footprint holds, in the output, the colour of a pixel at minimum Euclidean
\* distance among those pixels, and no output pixel holds the target colour,
\* the background colour or the ignore colour.
C1_NearestSource ==
    (bpc = "done" /\ Footprint(country) # {} /\ Sources(country) # {}) =>
        /\ \A p \in Footprint(country) :
              \E q \in Sources(country) :
                  /\ outarray[p] = maparray[q]
                  /\ \A r \in Sources(country) : Dist2(p, q) <= Dist2(p, r)
        /\ \A p \in Pixels :
              outarray[p] \notin {TargetColor(country), BgColor, IgnoreColor}

\* C1's case: a target pixel with two other regions at different distances,
\* recoloured with the nearer one's colour.
C1_Witness ==
    /\ bpc = "done"
    /\ \E p \in Footprint(country) : \E q, r \in Sources(country) :
          /\ maparray[q] # maparray[r]
          /\ Dist2(p, q) < Dist2(p, r)
          /\ outarray[p] = maparray[q]

\* C2: on a map of exactly two regions A and B and background, with no ignore
\* pixel, country_borders(A) returns an array of the map's dimensions where
\* every pixel of A holds B's colour and every other pixel is zero in all
\* four channels.
C2_TwoRegions ==
    bpc = "done" =>
        \A B \in RegionColors \ {TargetColor(country)} :
            ( /\ \A p \in Pixels : maparray[p] \in {TargetColor(country), B, BgColor}
              /\ \E p \in Pixels : maparray[p] = TargetColor(country)
              /\ \E p \in Pixels : maparray[p] = B )
            => /\ DOMAIN outarray = DOMAIN maparray
               /\ \A p \in Pixels :
                     outarray[p] = IF maparray[p] = TargetColor(country) THEN B ELSE Zero

\* C2's case: a map with pixels of A, of B and of the background, and nothing
\* else, after country_borders(A).
C2_Witness ==
    /\ bpc = "done"
    /\ \E B \in RegionColors \ {TargetColor(country)} :
          /\ \A p \in Pixels : maparray[p] \in {TargetColor(country), B, BgColor}
          /\ \E p, q, r \in Pixels :
                /\ maparray[p] = TargetColor(country)
                /\ maparray[q] = B
                /\ maparray[r] = BgColor
                /\ outarray[p] = B

\* C10 as claimed: country_borders fails if and only if the name is absent
\* from the legend; every name of the legend succeeds.
C10_FailsIffAbsentFromLegend ==
    bpc \in {"done", "error"} => (bpc = "error" <=> country \notin LegendNames)

\* C10, amended: country_borders fails if and only if the name is not a
\* canonical region name: it is absent from the legend, or it is the
\* background's name, or it is a merged name (a key of MERGE), which
\* country_borders does not resolve to its parent.
C10_FailsIffNotCanonical ==
    bpc \in {"done", "error"} =>
        (bpc = "error" <=> \/ country \notin LegendNames
                           \/ country = BACKGROUND
                           \/ country \in DOMAIN MERGE)

\* C10's case: a merged name of the legend was asked for, and the call failed.
C10_Witness ==
    bpc = "error" /\ country \in DOMAIN MERGE /\ country \in LegendNames

\* C11: for a name of the palette with no pixel of its colour in the map,
\* country_borders does not raise and returns an array of the map's
\* dimensions that is zero in every pixel and channel, whatever the other
\* pixels of the map are.
C11_EmptyTargetAllZero ==
    (bpc \in {"done", "error"} /\ index(names, country) # 0
                               /\ Footprint(country) = {}) =>
        /\ bpc = "done"
        /\ DOMAIN outarray = DOMAIN maparray
        /\ \A p \in Pixels : outarray[p] = Zero

\* C11's case: a map with pixels of other regions and of the ignore colour
\* and none of the target, after country_borders.
C11_Witness ==
    /\ bpc = "done"
    /\ Footprint(country) = {}
    /\ Sources(country) # {}
    /\ \E p \in Pixels : maparray[p] = IgnoreColor
    /\ \A p \in Pixels : outarray[p] = Zero

\* C12: on a map of target, background and ignore pixels only, with at least
\* one target pixel, country_borders returns an array that is zero in every
\* pixel and channel.
C12_NoSourceAllZero ==
    (bpc = "done" /\ Footprint(country) # {} /\ Sources(country) = {}) =>
        \A p \in Pixels : outarray[p] = Zero

\* C13: country_borders applied, with the same name, to the image that
\* country_borders returned gives an array that is zero in every pixel and
\* channel.
C13_AgainAllZero ==
    bpc = "redone" => \A p \in Pixels : outarray[p] = Zero

(***************************************************************************)
(* Claims about ignoring_extra_args, checked under SpecArgs.               *)
(***************************************************************************)

\* The number of positional parameters a signature declares, and the names
\* of its parameters that a keyword argument can name.
NPositional(sig) ==
    Cardinality({i \in 1..Len(sig) :
                    sig[i].kind \in {POSITIONAL_ONLY, POSITIONAL_OR_KEYWORD}})
KeywordNames(sig) ==
    {sig[i].name : i \in {j \in 1..Len(sig) :
                            sig[j].kind \in {POSITIONAL_OR_KEYWORD, KEYWORD_ONLY}}}
ArgsDone == apc \in {"returned", "raised"}

\* C6: for f with n positional parameters and no variadic parameter, and m >= n
\* positional arguments, f is called with exactly the first n arguments in
\* their order, and no TypeError for the number of positional arguments is
\* raised.
C6_FirstNPositional ==
    ( /\ ArgsDone
      /\ VAR_POSITIONAL \notin Kinds(fn.sig)
      /\ VAR_KEYWORD \notin Kinds(fn.sig)
      /\ Len(args) >= NPositional(fn.sig) )
    => /\ called.made
       /\ called.pos = [i \in 1..NPositional(fn.sig) |-> args[i]]
       /\ result.why \cap ArityErrors = {}

\* C6's case: more arguments than parameters; the extra ones were dropped and
\* f returned.
C6_Witness ==
    /\ apc = "returned"
    /\ VAR_POSITIONAL \notin Kinds(fn.sig)
    /\ VAR_KEYWORD \notin Kinds(fn.sig)
    /\ NPositional(fn.sig) >= 1
    /\ Len(args) > NPositional(fn.sig)
    /\ Len(called.pos) = NPositional(fn.sig)

\* C7 as claimed: with a variadic positional or a variadic keyword parameter,
\* every positional and every keyword argument is passed unchanged; otherwise
\* the keyword arguments whose names the signature does not declare are
\* dropped.
C7_AnyVariadicPassesAll ==
    ArgsDone =>
        IF VAR_POSITIONAL \in Kinds(fn.sig) \/ VAR_KEYWORD \in Kinds(fn.sig)
        THEN called.pos = args /\ called.kw = kwargs
        ELSE \A k \in DOMAIN kwargs :
                k \notin {fn.sig[i].name : i \in 1..Len(fn.sig)} => k \notin DOMAIN called.kw

\* C7, amended: the two kinds are filtered independently. With *args every
\* positional argument is passed, otherwise the first n only; with **kwargs
\* every keyword argument is passed, otherwise only those that name a
\* parameter a keyword can name.
C7_EachVariadicPassesItsKind ==
    ArgsDone =>
        /\ called.pos =
              IF VAR_POSITIONAL \in Kinds(fn.sig) THEN args
              ELSE [i \in 1..Min(NPositional(fn.sig), Len(args)) |-> args[i]]
        /\ called.kw =
              IF VAR_KEYWORD \in Kinds(fn.sig) THEN kwargs
              ELSE [k \in DOMAIN kwargs \cap KeywordNames(fn.sig) |-> kwargs[k]]

\* C7's case: f has **kwargs and no *args: the unknown keyword is passed on
\* while the extra positional arguments are dropped.
C7_Witness ==
    /\ ArgsDone
    /\ VAR_KEYWORD \in Kinds(fn.sig)
    /\ VAR_POSITIONAL \notin Kinds(fn.sig)
    /\ "z" \in DOMAIN called.kw
    /\ Len(called.pos) < Len(args)

(***************************************************************************)
(* Claims about ignoring_exceptions, checked under SpecExc.                *)
(***************************************************************************)

ExcDone == apc \in {"returned", "raised"} /\ fn.name = "fn"
\* fn raised an exception of one of the configured classes.
Configured == fn.raises # "" /\ \E c \in exceptions : c \in Bases[fn.raises]
HandlerValue == [of |-> handler.value, call |-> NoCall]

\* C8 as claimed: fn's result is returned and the handler not called when fn
\* returns; a configured exception is replaced by the fallback (the handler
\* value, or the result of the handler called through ignoring_extra_args)
\* and nothing is raised; any other exception propagates unchanged.
C8_FallbackNeverRaises ==
    ExcDone =>
        /\ fn.raises = "" =>
              /\ result = Returned(fn, Call(args, kwargs))
              /\ ~hcalled.made
        /\ Configured =>
              /\ result.raised = ""
              /\ result.value = IF handler.callable
                                THEN [of |-> "handler", call |-> hcalled]
                                ELSE HandlerValue
        /\ (fn.raises # "" /\ ~Configured) =>
              /\ result = Raised(fn.raises)
              /\ ~hcalled.made

\* C8, amended: as claimed, except that a callable handler is called with the
\* wrapper's arguments filtered by ignoring_extra_args, and when that call
\* raises (TypeError: the arguments left do not bind to the handler's
\* signature) the exception propagates instead of a fallback being returned.
C8_FallbackUnlessHandlerRaises ==
    ExcDone =>
        /\ fn.raises = "" =>
              /\ result = Returned(fn, Call(args, kwargs))
              /\ ~hcalled.made
        /\ (Configured /\ ~handler.callable) =>
              /\ result.raised = ""
              /\ result.value = HandlerValue
        /\ (Configured /\ handler.callable) =>
              /\ hcalled = Call(Passed(handler.fn.sig, args, kwargs).pos,
                                Passed(handler.fn.sig, args, kwargs).kw)
              /\ IF BindErrors(handler.fn.sig, hcalled.pos, hcalled.kw) = {}
                 THEN /\ result.raised = ""
                      /\ result.value = [of |-> "handler", call |-> hcalled]
                 ELSE /\ result.raised = "TypeError"
                      /\ result.why = BindErrors(handler.fn.sig, hcalled.pos, hcalled.kw)
        /\ (fn.raises # "" /\ ~Configured) =>
              /\ result = Raised(fn.raises)
              /\ ~hcalled.made

\* C8's case: fn raised a configured exception and the callable handler,
\* called with fewer arguments than the wrapper was given, returned the
\* fallback.
C8_Witness ==
    /\ apc = "returned"
    /\ Configured
    /\ handler.callable
    /\ hcalled.made
    /\ Len(hcalled.pos) < Len(args)
    /\ result.value = [of |-> "handler", call |-> hcalled]

(***************************************************************************)
(* Claims about with_retries, checked under SpecRetries.                   *)
(***************************************************************************)

RetryDone == rpc \in {"returned", "raised"}
\* fn raises exceptions of a configured class.
RaisesConfigured == \E c \in exceptions : c \in Bases[excclass]
\* call, sleep, call, ..., call: n calls with one sleep between two calls.
CallsWithSleepsBetween(n) ==
    [j \in 1..(2 * n - 1) |-> IF j % 2 = 1 THEN "call" ELSE "sleep"]

\* C3: with max_retries = n and no max_duration, a function that raises a
\* configured exception on every call is called exactly n + 1 times, and the
\* exception of the last call is then raised to the caller.
C3_AlwaysFailingCalledNPlusOneTimes ==
    ( /\ RetryDone
      /\ max_retries # None
      /\ max_duration = None
      /\ fails = None
      /\ RaisesConfigured )
    => /\ rpc = "raised"
       /\ Calls = max_retries + 1
       /\ rresult = Exception(Calls)

\* C4: with k < max_retries and no max_duration, a function that raises a
\* configured exception on its first k calls and then succeeds is called
\* exactly k + 1 times, the wrapper sleeps once between two consecutive calls
\* (k sleeps) and not after the last, and returns the function's value.
C4_SucceedsAfterKRetries ==
    ( /\ RetryDone
      /\ max_retries # None
      /\ max_duration = None
      /\ fails # None
      /\ fails < max_retries
      /\ RaisesConfigured )
    => /\ rpc = "returned"
       /\ rresult = Success
       /\ Calls = fails + 1
       /\ log = CallsWithSleepsBetween(fails + 1)

\* C4's case: the function failed twice and then succeeded, under a limit it
\* did not reach.
C4_Witness ==
    /\ rpc = "returned"
    /\ max_retries # None
    /\ max_duration = None
    /\ fails = 2
    /\ fails < max_retries
    /\ RaisesConfigured
    /\ log = <<"call", "sleep", "call", "sleep", "call">>

\* C5: with a max_duration and no max_retries, and a function that raises a
\* configured exception on every call, a failure seen once the clock has
\* passed the start time plus max_duration is re-raised: the wrapper does not
\* go to sleep again.
C5_NoSleepPastMaxDuration ==
    ( /\ max_retries = None
      /\ max_duration # None
      /\ fails = None
      /\ RaisesConfigured
      /\ rpc = "sleep" )
    => now <= end_time

(***************************************************************************)
(* Claims about cached_property, checked under SpecCache.                  *)
(***************************************************************************)

\* C9: a read calls the property's function if and only if no value is
\* cached (no read computed one yet, or none since the last deletion) or an
\* expiry duration is configured and more than it has passed since the value
\* was computed; every other read returns the value computed last, and with
\* no expiry duration a cached value is never recomputed.
C9_RecomputedIffAbsentOrExpired ==
    lastop.op = "get" =>
        /\ lastop.called <=>
              \/ ~lastop.cached
              \/ expires_after # None /\ lastop.age > expires_after
        /\ ~lastop.called =>
              /\ ~lastop.raised
              /\ lastop.value = computed.value
        /\ (expires_after = None /\ lastop.cached) => ~lastop.called

\* C9's case: a read found a cached value that had expired and computed the
\* value again.
C9_Witness ==
    /\ lastop.op = "get"
    /\ lastop.cached
    /\ lastop.called
    /\ ~lastop.raised
    /\ expires_after # None
    /\ lastop.age > expires_after
    /\ ncalls >= 2

====
